---- MODULE Spec2Model ----
(***************************************************************************)
(* Model of LightControl.py: RGB lights driven over DMX512/UDP.             *)
(* Colours, the Light class with its class-level registry, the five         *)
(* lighting modes, sendlevels and the run_lights tick loop.                 *)
(*                                                                          *)
(* Numbers: Python ints and floats are modelled as exact rationals          *)
(* <<n, d>> in lowest terms with d > 0 (an int is <<n, 1>>).                *)
(***************************************************************************)
EXTENDS Integers, Sequences, FiniteSets, TLC

\* ---- bounds of the model ------------------------------------------------
MaxLights == 2
MaxInterval == 3
MaxDuration == 2
MaxTime == 3
NumRand == 1
MaxCalls == 2
MaxLen == 3
MaxNeg == 1
SetupInterval == 2

\* ---- program constants --------------------------------------------------
max_lights == 10
PayloadLen == 255
ByteMax == 255

\* ---- numbers ------------------------------------------------------------
Abs(x) == IF x < 0 THEN 0 - x ELSE x

RECURSIVE GCD(_, _)
GCD(a, b) == IF b = 0 THEN a ELSE GCD(b, a % b)

Rat(n, d) == LET g == GCD(Abs(n), d) IN <<n \div g, d \div g>>

Num(n) == <<n, 1>>

RMul(p, q) == Rat(p[1] * q[1], p[2] * q[2])

RAdd(p, q) == Rat(p[1] * q[2] + q[1] * p[2], p[2] * q[2])

RSub(p, q) == Rat(p[1] * q[2] - q[1] * p[2], p[2] * q[2])

\* int(round(x)): Python 2 rounds halves away from zero
RoundInt(q) ==
    IF q[1] >= 0 THEN (2 * q[1] + q[2]) \div (2 * q[2])
    ELSE 0 - ((2 * (0 - q[1]) + q[2]) \div (2 * q[2]))

\* t % m for m # 0: the result takes the sign of the divisor m
PyMod(t, m) == IF m > 0 THEN t % m ELSE 0 - ((0 - t) % (0 - m))

\* list[i] for a list of n items: i counts from the end when negative, and
\* is an IndexError outside -n..n-1
IndexOk(i, n) == (0 - n) <= i /\ i < n

Pos(i, n) == IF i >= 0 THEN i + 1 ELSE n + i + 1

\* ---- class Color --------------------------------------------------------
Color(r, g, b) == [red |-> r, green |-> g, blue |-> b]

IntColor(r, g, b) == Color(Num(r), Num(g), Num(b))

Black == IntColor(0, 0, 0)

scale(c, factor) ==
    Color(RMul(c.red, factor), RMul(c.green, factor), RMul(c.blue, factor))

add(c, o) ==
    Color(RAdd(c.red, o.red), RAdd(c.green, o.green), RAdd(c.blue, o.blue))

\* values random.randint(0,255) is allowed to return in the model
RandVals == { (ByteMax * i) \div NumRand : i \in 0..NumRand }

\* Color.generate(): three independent draws
generate == { IntColor(r, g, b) : r \in RandVals, g \in RandVals, b \in RandVals }

\* ---- light modes --------------------------------------------------------
fixed_color(color) == [kind |-> "fixed_color", color |-> color]

cross_fade(color1, color2, interval) ==
    [kind |-> "cross_fade", color1 |-> color1, color2 |-> color2, interval |-> interval]

random_color(interval) == [kind |-> "random_color", interval |-> interval]

\* a lighting function of the caller's own: it destroys the light victim and
\* returns color
destroying(color, victim) == [kind |-> "destroying", color |-> color, victim |-> victim]

\* another: lambda time, value: colors[time]
sequence(colors) == [kind |-> "sequence", colors |-> colors]

fixed_color_strobe(color, oninterval, offinterval) ==
    [kind |-> "fixed_color_strobe", color |-> color,
     oninterval |-> oninterval, offinterval |-> offinterval]

variable_color_strobe(oninterval, offinterval) ==
    [kind |-> "variable_color_strobe",
     oninterval |-> oninterval, offinterval |-> offinterval]

\* linear_fade(interval): the two percentage lists (1-indexed here)
color2_percentages(interval) == [t \in 1..interval |-> Rat(t - 1, interval)]

color1_percentages(interval) ==
    [t \in 1..interval |-> RSub(Num(1), color2_percentages(interval)[t])]

\* percent1 = percent1 + percent2 ; percent2 = percent2 + temp
BadPercent1(interval) == color1_percentages(interval) \o color1_percentages(interval)

percent1(interval) == color1_percentages(interval) \o color2_percentages(interval)

percent2(interval) == color2_percentages(interval) \o color1_percentages(interval)

\* The closures returned by the light modes, applied to (t, v).  g is the
\* colour Color.generate() returns if the closure calls it; gen counts the
\* calls of Color.generate() the closure makes, exc the exception it raises
\* and destroys the light it calls destroy() on (0: none).
Ret(c, n) == [ret |-> c, gen |-> n, exc |-> "none", destroys |-> 0]

Raise(e) == [ret |-> Black, gen |-> 0, exc |-> e, destroys |-> 0]

cross_fade_fn(f, t, v) ==
    LET m == 2 * f.interval
        n == Len(percent1(f.interval))
        i == PyMod(t, m)
    IN  IF m = 0 THEN Raise("ZeroDivisionError")
        ELSE IF ~IndexOk(i, n) THEN Raise("IndexError")
        ELSE Ret(add(scale(f.color1, percent1(f.interval)[Pos(i, n)]),
                     scale(f.color2, percent2(f.interval)[Pos(i, n)])), 0)

EagerRandomColorFn(f, t, v, g) ==
    IF f.interval = 0 THEN Raise("ZeroDivisionError") ELSE Ret(g, 1)

GuardedRandomColorFn(f, t, v, g) ==
    IF f.interval <= 0 THEN Ret(v, 0)
    ELSE IF (t % f.interval) = 0 THEN Ret(g, 1) ELSE Ret(v, 0)

BadRandomColorFn(f, t, v, g) ==
    IF (t % f.interval) = 0 THEN Ret(g, 1) ELSE Ret(Black, 0)

random_color_fn(f, t, v, g) ==
    IF f.interval = 0 THEN Raise("ZeroDivisionError")
    ELSE IF PyMod(t, f.interval) = 0 THEN Ret(g, 1) ELSE Ret(v, 0)

BadFixedStrobeFn(f, t, v) ==
    LET time == t % (f.oninterval + f.offinterval)
    IN  IF time <= f.oninterval THEN Ret(f.color, 0) ELSE Ret(Black, 0)

fixed_color_strobe_fn(f, t, v) ==
    LET m == f.oninterval + f.offinterval
        time == PyMod(t, m)
    IN  IF m = 0 THEN Raise("ZeroDivisionError")
        ELSE IF time < f.oninterval THEN Ret(f.color, 0) ELSE Ret(Black, 0)

BadVariableStrobeFn(f, t, v, g) ==
    LET time == t % (f.oninterval + f.offinterval)
    IN  IF time < f.oninterval THEN Ret(g, 1) ELSE Ret(Black, 0)

variable_color_strobe_fn(f, t, v, g) ==
    LET m == f.oninterval + f.offinterval
        time == PyMod(t, m)
    IN  IF m = 0 THEN Raise("ZeroDivisionError")
        ELSE IF time = 0 THEN Ret(g, 1)
        ELSE IF time < f.oninterval THEN Ret(v, 0)
        ELSE Ret(Black, 0)

destroying_fn(f, t, v) ==
    [ret |-> f.color, gen |-> 0, exc |-> "none", destroys |-> f.victim]

sequence_fn(f, t, v) ==
    IF IndexOk(t, Len(f.colors)) THEN Ret(f.colors[Pos(t, Len(f.colors))], 0)
    ELSE Raise("IndexError")

lighting_function(f, t, v, g) ==
    CASE f.kind = "fixed_color" -> Ret(f.color, 0)
      [] f.kind = "cross_fade" -> cross_fade_fn(f, t, v)
      [] f.kind = "random_color" -> random_color_fn(f, t, v, g)
      [] f.kind = "fixed_color_strobe" -> fixed_color_strobe_fn(f, t, v)
      [] f.kind = "variable_color_strobe" -> variable_color_strobe_fn(f, t, v, g)
      [] f.kind = "destroying" -> destroying_fn(f, t, v)
      [] f.kind = "sequence" -> sequence_fn(f, t, v)

\* ---- inputs -------------------------------------------------------------
ColorA == IntColor(10, 20, 30)
ColorB == IntColor(255, 0, 128)
ColorOut == IntColor(300, 0 - 5, 128)

Palette == {ColorA, ColorB, ColorOut}

Intervals == 1..MaxInterval

\* every light mode over the palette and the intervals
Functions ==
    { fixed_color(c) : c \in Palette }
    \cup { cross_fade(c1, c2, i) : c1 \in Palette, c2 \in Palette, i \in Intervals }
    \cup { random_color(i) : i \in Intervals }
    \cup { fixed_color_strobe(c, n, m) : c \in Palette, n \in Intervals, m \in Intervals }
    \cup { variable_color_strobe(n, m) : n \in Intervals, m \in Intervals }

\* light modes made with an interval that is not positive
BadIntervals == (0 - MaxNeg)..1

BadPairs == { p \in BadIntervals \X BadIntervals : p[1] <= 0 \/ p[2] <= 0 }

BadFunctions ==
    { cross_fade(ColorA, ColorB, i) : i \in BadIntervals \ {1} }
    \cup { random_color(i) : i \in BadIntervals \ {1} }
    \cup { fixed_color_strobe(ColorA, p[1], p[2]) : p \in BadPairs }
    \cup { variable_color_strobe(p[1], p[2]) : p \in BadPairs }

\* the lights a program sets up: <<address, lighting function>>.  Two share
\* address 0, one has its third channel outside the channel list, one shows
\* a colour outside 0..255
SetupLights ==
    { <<0, fixed_color(ColorA)>>,
      <<0, random_color(SetupInterval)>>,
      <<3, cross_fade(ColorA, ColorB, SetupInterval)>>,
      <<3, fixed_color(ColorOut)>>,
      <<3 * max_lights - 2, fixed_color(ColorB)>> }

\* colours a light may hold when values() is called on it directly
PrevColors == Palette \cup {Black}

Ticks == 0..(2 * MaxInterval)

\* bytes and near-bytes for direct calls of sendlevels
ByteSamples == {0, ByteMax, ByteMax + 1}

TestBuffers ==
    UNION { [1..n -> ByteSamples] : n \in 0..MaxLen }
    \cup { <<10, 20, 30>>, <<0 - 1>>,
           [i \in 1..PayloadLen |-> 10], [i \in 1..(PayloadLen + 1) |-> 20] }

\* ---- state --------------------------------------------------------------
VARIABLES
    objs,           \* the Light objects created so far, in creation order
    active_lights,  \* Light.active_lights: indices into objs
    pc,             \* where run_lights is: idle, while, for, sleep, send
    duration,       \* run_lights' argument
    time,           \* run_lights' tick counter
    light_data,     \* run_lights' channel list
    iter,           \* lights the for loop has still to visit in this tick
    result,         \* how the last call ended: none, returned or an exception
    attempts,       \* sendto calls made by the current run_lights / sendlevels
    neterr,         \* TRUE iff the most recent sendto raised
    levels,         \* argument of the most recent sendlevels call
    out,            \* 255s field of the most recent packet given to sendto
    lastEval,       \* the most recent call of Light.values
    evalLog,        \* per light: the times it was evaluated at in this run
    draws           \* per light: the Color.generate() calls made for it in
                    \* this run: how many, the time and the colour of the last

vars == <<objs, active_lights, pc, duration, time, light_data, iter, result,
          attempts, neterr, levels, out, lastEval, evalLog, draws>>

NoEval == [l |-> 0]

NoDraw == [n |-> 0, at |-> 0 - 1, colour |-> Black]

Init ==
    /\ objs = <<>>
    /\ active_lights = {}
    /\ pc = "idle"
    /\ duration = 0
    /\ time = 0
    /\ light_data = <<>>
    /\ iter = {}
    /\ result = "none"
    /\ attempts = 0
    /\ neterr = FALSE
    /\ levels = <<>>
    /\ out = <<>>
    /\ lastEval = NoEval
    /\ evalLog = <<>>
    /\ draws = <<>>

\* what the model remembers of the last run_lights / sendlevels call is
\* dropped when the program goes on to something else
Forgotten(n) ==
    /\ duration' = 0
    /\ time' = 0
    /\ result' = "none"
    /\ attempts' = 0
    /\ neterr' = FALSE
    /\ levels' = <<>>
    /\ out' = <<>>
    /\ lastEval' = NoEval
    /\ evalLog' = [l \in 1..n |-> <<>>]
    /\ draws' = [l \in 1..n |-> NoDraw]

\* ---- class Light --------------------------------------------------------
\* two lights at addresses a and b share a channel
Overlap(a, b) == a <= b + 2 /\ b <= a + 2

\* self.active_lights.add(self), for the new light l at address
ExclusiveRegistered(registry, l, address) ==
    IF \E k \in registry : Overlap(objs[k].address, address)
    THEN registry ELSE registry \cup {l}

Registered(registry, l, address) == registry \cup {l}

\* Light.__init__
NewLight(address, f) ==
    /\ pc = "idle"
    /\ Len(objs) < MaxLights
    /\ objs' = Append(objs, [address |-> address, lighting_function |-> f,
                             value |-> Black])
    /\ active_lights' = Registered(active_lights, Len(objs) + 1, address)
    /\ Forgotten(Len(objs) + 1)
    /\ UNCHANGED <<pc, light_data, iter>>

\* Light.list_all
OneLight == IF active_lights = {} THEN {} ELSE {CHOOSE l \in active_lights : TRUE}

list_all == active_lights

\* Light.destroy
destroy(l) ==
    /\ pc = "idle"
    /\ l \in active_lights
    /\ active_lights' = active_lights \ {l}
    /\ Forgotten(Len(objs))
    /\ UNCHANGED <<objs, pc, light_data, iter>>

\* Light.change_lighting_function
ResettingChange(l, new_function) ==
    /\ pc = "idle"
    /\ l \in 1..Len(objs)
    /\ objs' = [objs EXCEPT ![l].lighting_function = new_function,
                            ![l].value = Black]

change_lighting_function(l, new_function) ==
    /\ pc = "idle"
    /\ l \in 1..Len(objs)
    /\ objs' = [objs EXCEPT ![l].lighting_function = new_function]

\* Light.values(time): the closure called with (time, self.value).  A
\* destroy() of a light that is not registered is set.remove's KeyError.
ForgetfulValues(l, t, g) == lighting_function(objs[l].lighting_function, t, Black, g)

values(l, t, g) ==
    LET r == lighting_function(objs[l].lighting_function, t, objs[l].value, g)
    IN  IF r.destroys # 0 /\ r.destroys \notin active_lights
        THEN Raise("KeyError") ELSE r

\* the registry after a lighting function that returned r has run
After(r) ==
    IF r.exc = "none" /\ r.destroys # 0
    THEN active_lights \ {r.destroys} ELSE active_lights

\* ... and its result stored in self.value, unless it raised
Evaluated(l, t, r) ==
    /\ objs' = IF r.exc = "none" THEN [objs EXCEPT ![l].value = r.ret] ELSE objs
    /\ lastEval' = [l |-> l, f |-> objs[l].lighting_function, t |-> t,
                    prev |-> objs[l].value, ret |-> r.ret, gen |-> r.gen,
                    exc |-> r.exc]

\* ---- sendlevels ---------------------------------------------------------
\* array.array('B', levels) raises OverflowError unless every item is a byte
ArrayB(lv) == \A i \in 1..Len(lv) : lv[i] >= 0 /\ lv[i] <= ByteMax

\* struct.pack's 255s field: truncated or zero-padded to 255 bytes.  The
\* fields before it are constants and are not modelled; packing them is
\* taken to succeed (the -1 given for an L field is masked by the struct
\* module of the Python 2 releases the program was written for).
BadPack255s(bytes) == bytes

Pack255s(bytes) ==
    [i \in 1..PayloadLen |-> IF i <= Len(bytes) THEN bytes[i] ELSE 0]

\* the try/except around sendto: a socket error is printed and swallowed
BadSendOutcome(err) == IF err THEN "raised" ELSE "ok"

SendOutcome(err) == "ok"

\* ---- run_lights ---------------------------------------------------------
BadDurationCheck(d) == d < 0 - 1

DurationCheck(d) == d < 0

StaleLightData(old) ==
    IF old = <<>> THEN [i \in 1..(3 * max_lights) |-> Num(0)] ELSE old

NewLightData(old) == [i \in 1..(3 * max_lights) |-> Num(0)]

NoZeroLoopTest(t, d) == t < d

BadLoopTest(t, d) == t <= d \/ d = 0

LoopTest(t, d) == t < d \/ d = 0

\* the call: the argument is bound, then checked, then the locals are made
RunLights(d) ==
    /\ pc = "idle"
    /\ duration' = d
    /\ time' = 0
    /\ attempts' = 0
    /\ neterr' = FALSE
    /\ levels' = <<>>
    /\ out' = <<>>
    /\ lastEval' = NoEval
    /\ evalLog' = [l \in 1..Len(objs) |-> <<>>]
    /\ draws' = [l \in 1..Len(objs) |-> NoDraw]
    /\ IF DurationCheck(d)
       THEN /\ result' = "ValueError"
            /\ UNCHANGED <<pc, light_data>>
       ELSE /\ light_data' = NewLightData(light_data)
            /\ pc' = "while"
            /\ result' = "none"
    /\ UNCHANGED <<objs, active_lights, iter>>

\* while time < duration or duration == 0
WhileTest ==
    /\ pc = "while"
    /\ (duration = 0) => time < MaxTime
    /\ IF LoopTest(time, duration)
       THEN /\ pc' = "for"
            /\ iter' = list_all
            /\ UNCHANGED result
       ELSE /\ pc' = "idle"
            /\ result' = "returned"
            /\ UNCHANGED iter
    /\ UNCHANGED <<objs, active_lights, duration, time, light_data, attempts,
                   neterr, levels, out, lastEval, evalLog, draws>>

\* the three assignments of the loop body; the first index outside the list
\* raises IndexError and the assignments before it have been made
Written(data, a, c) ==
    LET n == Len(data)
        d1 == IF a < n THEN [data EXCEPT ![a + 1] = c.red] ELSE data
        d2 == IF a + 1 < n THEN [d1 EXCEPT ![a + 2] = c.green] ELSE d1
        d3 == IF a + 2 < n THEN [d2 EXCEPT ![a + 3] = c.blue] ELSE d2
    IN  d3

\* the exception that ends one pass of the for loop, if any: the one the
\* lighting function raised, else the IndexError of an address a whose
\* channels are not all in the list of n channels, else the RuntimeError
\* ("Set changed size during iteration") of the set iterator when it is
\* asked for the next light after the registry has changed size
SwallowedFault(exc, a, n, changed) == "none"

Fault(exc, a, n, changed) ==
    IF exc # "none" THEN exc
    ELSE IF a + 2 >= n THEN "IndexError"
    ELSE IF changed THEN "RuntimeError"
    ELSE "none"

\* the order of the statements after the for loop: print and time += 1,
\* then sleep, then sendlevels, then the loop test
SendFirst(p) ==
    CASE p = "for" -> "send"
      [] p = "send" -> "sleep"
      [] p = "sleep" -> "while"

StepAfter(p) ==
    CASE p = "for" -> "sleep"
      [] p = "sleep" -> "send"
      [] p = "send" -> "while"

\* one pass of the for loop body, and the fetch of the next light
ForBody ==
    /\ pc = "for"
    /\ \E l \in iter, g \in generate :
         LET r == values(l, time, g)
             a == objs[l].address
             fault == Fault(r.exc, a, Len(light_data), After(r) # active_lights)
         IN  /\ Evaluated(l, time, r)
             /\ evalLog' = [evalLog EXCEPT ![l] = Append(@, time)]
             /\ draws' = IF r.gen = 1
                         THEN [draws EXCEPT ![l] = [n |-> @.n + 1, at |-> time,
                                                    colour |-> r.ret]]
                         ELSE draws
             /\ active_lights' = After(r)
             /\ light_data' = IF r.exc = "none"
                              THEN Written(light_data, a, r.ret) ELSE light_data
             /\ IF fault = "none"
                THEN /\ iter' = iter \ {l}
                     /\ UNCHANGED <<pc, result>>
                ELSE /\ iter' = {}
                     /\ pc' = "idle"
                     /\ result' = fault
    /\ UNCHANGED <<duration, time, attempts, neterr, levels, out>>

\* print ... ; time += 1
PrintIncr ==
    /\ pc = "for"
    /\ iter = {}
    /\ time' = time + 1
    /\ pc' = StepAfter("for")
    /\ UNCHANGED <<objs, active_lights, duration, light_data, iter, result,
                   attempts, neterr, levels, out, lastEval, evalLog, draws>>

\* sleep(.0166)
Sleep ==
    /\ pc = "sleep"
    /\ pc' = StepAfter("sleep")
    /\ UNCHANGED <<objs, active_lights, duration, time, light_data, iter, result,
                   attempts, neterr, levels, out, lastEval, evalLog, draws>>

\* map(lambda x: int(round(x)), light_data)
ClampedRounded(data) ==
    [i \in 1..Len(data) |->
        IF RoundInt(data[i]) > ByteMax THEN ByteMax
        ELSE IF RoundInt(data[i]) < 0 THEN 0 ELSE RoundInt(data[i])]

Rounded(data) == [i \in 1..Len(data) |-> RoundInt(data[i])]

\* the body of sendlevels(lv), returning to pc value back
sendlevels(lv, back) ==
    /\ levels' = lv
    /\ IF ~ArrayB(lv)
       THEN /\ result' = "OverflowError"
            /\ pc' = "idle"
            /\ UNCHANGED <<attempts, neterr, out>>
       ELSE /\ out' = Pack255s(lv)
            /\ attempts' = attempts + 1
            /\ \E err \in BOOLEAN :
                 /\ neterr' = err
                 /\ IF SendOutcome(err) = "ok"
                    THEN /\ pc' = back
                         /\ result' = IF back = "idle" THEN "returned" ELSE result
                    ELSE /\ pc' = "idle"
                         /\ result' = "SocketError"

\* sendlevels(map(...)) at the end of the loop body
SendLevels ==
    /\ pc = "send"
    /\ sendlevels(Rounded(light_data), StepAfter("send"))
    /\ UNCHANGED <<objs, active_lights, duration, time, light_data, iter,
                   lastEval, evalLog, draws>>

RunStep == WhileTest \/ ForBody \/ PrintIncr \/ Sleep \/ SendLevels

Durations == (0 - 1)..MaxDuration

Setup ==
    \/ \E s \in SetupLights : NewLight(s[1], s[2])
    \/ \E l \in active_lights : destroy(l)

Call == \E d \in Durations : RunLights(d)

Next == Setup \/ Call \/ RunStep

Spec == Init /\ [][Next]_vars

\* ---- lights that raise ------------------------------------------------------
\* lights of a program whose ticks can raise: one whose lighting function
\* destroys the light created first, one made with random_color(0), one
\* whose lighting function has a colour for tick 0 only, one with its third
\* channel outside the channel list
FaultyLights ==
    { <<0, fixed_color(ColorA)>>,
      <<3, destroying(ColorB, 1)>>,
      <<6, random_color(0)>>,
      <<6, sequence(<<ColorB>>)>>,
      <<3 * max_lights - 2, fixed_color(ColorB)>> }

\* a lighting function can only hold a light that exists when it is made
FaultySetup ==
    \/ \E s \in FaultyLights :
         /\ (s[2].kind = "destroying") => (s[2].victim \in 1..Len(objs))
         /\ NewLight(s[1], s[2])
    \/ \E l \in active_lights : destroy(l)

FaultyNext == FaultySetup \/ Call \/ RunStep

FaultySpec == Init /\ [][FaultyNext]_vars

\* ---- run_lights(0) -----------------------------------------------------------
\* the lights of SetupLights with a fixed colour
PlainLights == { s \in SetupLights : s[2].kind = "fixed_color" }

\* a program that sets such lights up and calls run_lights(0); the
\* interpreter keeps executing a call that has a step to take
ForeverNext ==
    \/ \E s \in PlainLights : NewLight(s[1], s[2])
    \/ RunLights(0)
    \/ RunStep

ForeverSpec == Init /\ [][ForeverNext]_vars /\ WF_vars(RunStep)

\* ---- the light modes called directly ------------------------------------
\* one light holding any mode and any previous colour
FnInit ==
    /\ \E f \in Functions, v \in PrevColors :
         objs = <<[address |-> 0, lighting_function |-> f, value |-> v]>>
    /\ active_lights = {1}
    /\ pc = "idle"
    /\ duration = 0
    /\ time = 0
    /\ light_data = <<>>
    /\ iter = {}
    /\ result = "none"
    /\ attempts = 0
    /\ neterr = FALSE
    /\ levels = <<>>
    /\ out = <<>>
    /\ lastEval = NoEval
    /\ evalLog = << <<>> >>
    /\ draws = <<NoDraw>>

\* light.values(t) called from outside run_lights
CallValues(l, t) ==
    /\ pc = "idle"
    /\ \E g \in generate :
         LET r == values(l, t, g)
         IN  /\ Evaluated(l, t, r)
             /\ active_lights' = After(r)
             /\ result' = IF r.exc = "none" THEN "returned" ELSE r.exc
    /\ UNCHANGED <<pc, duration, time, light_data, iter,
                   attempts, neterr, levels, out, evalLog, draws>>

FnNext == \E t \in Ticks : CallValues(1, t)

FnSpec == FnInit /\ [][FnNext]_vars

\* a light made with such a light mode, and values() called on it
ParamNext ==
    \/ \E f \in BadFunctions : objs = <<>> /\ NewLight(0, f)
    \/ \E l \in active_lights, t \in Ticks : CallValues(l, t)

ParamSpec == Init /\ [][ParamNext]_vars

\* ---- lighting functions changed ------------------------------------------------
\* the lighting functions a program changes its lights to
NewFunctions == { random_color(SetupInterval), fixed_color(ColorB) }

\* light.change_lighting_function(f) called by a program
Change(l, f) ==
    /\ change_lighting_function(l, f)
    /\ UNCHANGED <<active_lights, pc, duration, time, light_data, iter, result,
                   attempts, neterr, levels, out, lastEval, evalLog, draws>>

\* a program that makes lights with fixed colours, changes their lighting
\* functions and calls values() on them
ChangeNext ==
    \/ \E s \in PlainLights : NewLight(s[1], s[2])
    \/ \E l \in 1..Len(objs), f \in NewFunctions : Change(l, f)
    \/ \E l \in active_lights, t \in 0..(SetupInterval - 1) : CallValues(l, t)

ChangeSpec == Init /\ [][ChangeNext]_vars

\* ---- sendlevels called directly ------------------------------------------
CallSendLevels(lv) ==
    /\ pc = "idle"
    /\ attempts < MaxCalls
    /\ sendlevels(lv, "idle")
    /\ UNCHANGED <<objs, active_lights, duration, time, light_data, iter,
                   lastEval, evalLog, draws>>

EncNext == \E lv \in TestBuffers : CallSendLevels(lv)

EncSpec == Init /\ [][EncNext]_vars

\* ---- properties ----------------------------------------------------------
Running == pc # "idle"

\* the ticks 0, 1, ..., n-1 in that order
FirstTicks(n) == [i \in 1..n |-> i - 1]

\* what a call with duration > 0 has done so far, and at its return
C1_Counts ==
    (duration > 0 /\ (Running \/ result = "returned")) =>
        /\ time <= duration
        /\ attempts <= duration
        /\ \A l \in 1..Len(objs) :
             /\ evalLog[l] = FirstTicks(Len(evalLog[l]))
             /\ Len(evalLog[l]) <= duration
             /\ l \notin active_lights => evalLog[l] = <<>>
        /\ result = "returned" =>
             /\ time = duration
             /\ attempts = duration
             /\ \A l \in active_lights : evalLog[l] = FirstTicks(duration)

\* the number of steps a call with duration > 0 still has to make
C1_StepsLeft ==
    LET perTick == Cardinality(active_lights) + 4
    IN  CASE pc = "while" -> (duration - time) * perTick + 1
          [] pc = "for" -> (duration - time - 1) * perTick + 4 + Cardinality(iter)
          [] pc = "sleep" -> (duration - time) * perTick + 3
          [] pc = "send" -> (duration - time) * perTick + 2
          [] OTHER -> 0

\* a running call is at one of the steps of the loop, each of which can be
\* taken, and has steps left
C1_Progress ==
    (Running /\ duration > 0) =>
        /\ pc \in {"while", "for", "sleep", "send"}
        /\ iter \subseteq active_lights
        /\ C1_StepsLeft > 0

\* every step of a running call leaves fewer steps
C1_Decrease == (Running /\ duration > 0) => (C1_StepsLeft' < C1_StepsLeft)

\* C1: a call run_lights(d) with d > 0 ends, and when it returns it has made
\* exactly d ticks: the counter went 0, 1, ..., d, every registered light was
\* evaluated at ticks 0..d-1 in that order and at no other tick, and exactly
\* d frames were handed to sendto.  It ends because every step it takes
\* lowers the count of steps left and it is never stuck.  (A call ended by an
\* exception ends early; that is C17's.)
C1_ExactTicks == [](C1_Counts /\ C1_Progress) /\ [][C1_Decrease]_vars

C1_Witness ==
    /\ result = "returned"
    /\ duration = MaxDuration
    /\ Cardinality(active_lights) = 2
    /\ attempts = duration

\* C2: run_lights(d) with d < 0 raises ValueError at once: no frame is sent,
\* no light is evaluated (objects and their stored colours are as before) and
\* the registry is as before.
C2_NegativeDuration ==
    [][(pc = "idle" /\ duration' < 0) =>
          /\ result' = "ValueError"
          /\ pc' = "idle"
          /\ attempts' = 0
          /\ out' = <<>>
          /\ lastEval' = NoEval
          /\ \A l \in 1..Len(objs) : evalLog'[l] = <<>>
          /\ UNCHANGED <<objs, active_lights>>]_vars

C2_Witness ==
    /\ duration < 0
    /\ result = "ValueError"
    /\ \E l \in active_lights : objs[l].value # Black

\* a step of sendlevels that called sendto
C3_Step ==
    (pc = "send" /\ attempts' # attempts) =>
        /\ attempts' = attempts + 1
        /\ attempts' = time
        /\ pc' = "while"
        /\ result' = "none"
        /\ UNCHANGED <<time, duration, light_data, objs, active_lights>>

\* sendto calls made so far, against the ticks made so far
C3_OncePerTick ==
    (Running /\ result = "none") =>
        attempts = (IF pc \in {"sleep", "send"} THEN time - 1 ELSE time)

\* C3: a sendto that raises is swallowed: run_lights goes on to the loop test
\* with the tick counter, the channel list, the lights and the registry as
\* they were, exactly as after a sendto that worked, and the frame is not
\* sent again: at the loop test the number of sendto calls is the number of
\* ticks made.
C3_NetworkFailure == []C3_OncePerTick /\ [][C3_Step]_vars

C3_Witness ==
    /\ neterr
    /\ pc = "for"
    /\ iter = {}
    /\ time = 1
    /\ active_lights # {}

\* ---- C4 ------------------------------------------------------------------
IsByte(x) == x \in 0..ByteMax

\* k is an integer nearest to the rational q
Nearest(k, q) == 2 * Abs(k * q[2] - q[1]) <= q[2]

\* C4, as claimed: every value in the channel list is an integer in 0..255,
\* whatever colour a lighting function produced, and no tick ends in an error
\* of the encoder.
C4_Clamped ==
    /\ \A i \in 1..Len(light_data) : light_data[i][2] = 1 /\ IsByte(light_data[i][1])
    /\ \A i \in 1..Len(levels) : IsByte(levels[i])
    /\ result # "OverflowError"

\* the channels of the light evaluated last hold what its function returned
C4_Stored ==
    (pc = "for" /\ lastEval.l # 0 /\ lastEval.t = time) =>
        LET a == objs[lastEval.l].address
        IN  /\ light_data[a + 1] = lastEval.ret.red
            /\ light_data[a + 2] = lastEval.ret.green
            /\ light_data[a + 3] = lastEval.ret.blue

\* what sendlevels was given, and whether array('B') took it
C4_Passed ==
    (levels # <<>> /\ pc \in {"idle", "while"}) =>
        /\ Len(levels) = Len(light_data)
        /\ \A i \in 1..Len(levels) : Nearest(levels[i], light_data[i])
        /\ (\E i \in 1..Len(levels) : ~IsByte(levels[i])) <=> result = "OverflowError"

\* the encoder's error ends the call before sendto
C4_Raised ==
    result = "OverflowError" =>
        /\ pc = "idle"
        /\ attempts = time - 1

\* a packed frame holds bytes
C4_Sent == \A i \in 1..Len(out) : IsByte(out[i])

\* C4, amended to what the code does: the channel list holds the colour components as
\* the lighting functions returned them, neither rounded nor clamped; what
\* sendlevels is given is each of them rounded to a nearest integer, not
\* clamped; if all of these are in 0..255 the frame is packed and the tick
\* ends normally, and if one is not, array('B') raises OverflowError, the
\* frame of that tick is not sent and run_lights ends with the error.
C4_Unclamped == C4_Stored /\ C4_Passed /\ C4_Raised /\ C4_Sent

\* a run ended by the encoder's error on components above 255 and below 0
C4_Witness ==
    /\ result = "OverflowError"
    /\ \E i \in 1..Len(levels) : levels[i] > ByteMax
    /\ \E i \in 1..Len(levels) : levels[i] < 0

\* two ticks ended normally with a component that is no integer in the list
C4_WitnessNormal ==
    /\ pc = "while"
    /\ result = "none"
    /\ attempts = 2
    /\ \E i \in 1..Len(light_data) : light_data[i][2] # 1

\* ---- C5 to C8: the light modes ---------------------------------------------
Called(kind) == lastEval.l # 0 /\ lastEval.f.kind = kind

\* (n1 * c1 + n2 * c2) / d, for colours c1, c2 with integer components
Blend(n1, c1, n2, c2, d) ==
    Color(Rat(n1 * c1.red[1] + n2 * c2.red[1], d),
          Rat(n1 * c1.green[1] + n2 * c2.green[1], d),
          Rat(n1 * c1.blue[1] + n2 * c2.blue[1], d))

\* C5: cross_fade(c1, c2, I) at tick t returns w1*c1 + w2*c2 where p = t mod 2I
\* and (w1, w2) = (1 - p/I, p/I) if p < I, else ((p-I)/I, 1 - (p-I)/I); so the
\* weights sum to 1, the result is c1 at t = 0 and t = 2I and c2 at t = I, it
\* does not depend on the previous colour, and no random colour is drawn.
C5_CrossFade ==
    Called("cross_fade") =>
        LET f == lastEval.f
            I == f.interval
            p == lastEval.t % (2 * I)
            n1 == IF p < I THEN I - p ELSE p - I
            n2 == IF p < I THEN p ELSE I - (p - I)
        IN  /\ n1 + n2 = I
            /\ lastEval.ret = Blend(n1, f.color1, n2, f.color2, I)
            /\ lastEval.t \in {0, 2 * I} => lastEval.ret = f.color1
            /\ lastEval.t = I => lastEval.ret = f.color2
            /\ lastEval.gen = 0

C5_Witness ==
    /\ Called("cross_fade")
    /\ lastEval.f.interval = 2
    /\ lastEval.t = 3
    /\ lastEval.f.color1 # lastEval.f.color2
    /\ lastEval.prev # lastEval.ret

\* C6: random_color(I) at (t, prev) returns prev and draws nothing when
\* t mod I # 0, and when t mod I = 0 draws once and returns the colour drawn,
\* whose components are integers in 0..255.
C6_RandomColor ==
    Called("random_color") =>
        IF lastEval.t % lastEval.f.interval # 0
        THEN lastEval.ret = lastEval.prev /\ lastEval.gen = 0
        ELSE /\ lastEval.gen = 1
             /\ \A c \in {lastEval.ret.red, lastEval.ret.green, lastEval.ret.blue} :
                  c[2] = 1 /\ IsByte(c[1])

C6_Witness ==
    /\ Called("random_color")
    /\ lastEval.t % lastEval.f.interval # 0
    /\ lastEval.prev # Black
    /\ lastEval.ret = lastEval.prev

C6_WitnessDrawn ==
    /\ Called("random_color")
    /\ lastEval.t = lastEval.f.interval
    /\ lastEval.gen = 1
    /\ lastEval.ret # lastEval.prev

\* C7: variable_color_strobe(onT, offT) at (t, prev), with q = t mod (onT+offT):
\* draws a colour and returns it iff q = 0, returns prev and draws nothing
\* when 1 <= q <= onT-1, and returns black and draws nothing when q >= onT.
C7_VariableStrobe ==
    Called("variable_color_strobe") =>
        LET q == lastEval.t % (lastEval.f.oninterval + lastEval.f.offinterval)
        IN  /\ lastEval.gen = 1 <=> q = 0
            /\ q = 0 => \A c \in {lastEval.ret.red, lastEval.ret.green, lastEval.ret.blue} :
                          c[2] = 1 /\ IsByte(c[1])
            /\ (1 <= q /\ q <= lastEval.f.oninterval - 1) => lastEval.ret = lastEval.prev
            /\ q >= lastEval.f.oninterval => lastEval.ret = Black

C7_Witness ==
    /\ Called("variable_color_strobe")
    /\ lastEval.f.oninterval = 3
    /\ lastEval.t % (lastEval.f.oninterval + lastEval.f.offinterval) = 2
    /\ lastEval.prev # Black
    /\ lastEval.ret = lastEval.prev

\* C8: fixed_color_strobe(c, onT, offT) at tick t returns c when
\* t mod (onT+offT) < onT and black otherwise, whatever the previous colour
\* (with on = 3, off = 2: c at ticks 0, 1, 2 and 5, black at ticks 3 and 4).
C8_FixedStrobe ==
    Called("fixed_color_strobe") =>
        LET f == lastEval.f
        IN  /\ lastEval.ret =
                 IF lastEval.t % (f.oninterval + f.offinterval) < f.oninterval
                 THEN f.color ELSE Black
            /\ lastEval.gen = 0
            /\ (f.oninterval = 3 /\ f.offinterval = 2) =>
                 /\ lastEval.t \in {0, 1, 2, 5} => lastEval.ret = f.color
                 /\ lastEval.t \in {3, 4} => lastEval.ret = Black

C8_Witness ==
    /\ Called("fixed_color_strobe")
    /\ lastEval.f.oninterval = 3
    /\ lastEval.f.offinterval = 2
    /\ lastEval.t = 5
    /\ lastEval.ret = lastEval.f.color
    /\ lastEval.prev = Black

\* ---- C9, C10: the frame -----------------------------------------------------
\* C9: for a channel list of n <= 255 bytes, the 255s field of the packet is
\* 255 bytes long, byte i is the list's item i for i < n and 0 from n on.
C9_Payload ==
    (result = "returned" /\ attempts > 0 /\ Len(levels) <= PayloadLen) =>
        /\ Len(out) = 255
        /\ \A i \in 0..254 :
             out[i + 1] = (IF i < Len(levels) THEN levels[i + 1] ELSE 0)

C9_Witness ==
    /\ result = "returned"
    /\ levels = <<10, 20, 30>>
    /\ out[3] = 30
    /\ out[4] = 0

\* channel i belongs to a registered light
Owned(i) == \E l \in active_lights : objs[l].address <= i /\ i <= objs[l].address + 2

\* a step of run_lights that handed a frame to sendto
C10_Step ==
    (pc = "send" /\ attempts' # attempts) =>
        \A i \in 0..(Len(out') - 1) : ~Owned(i) => out'[i + 1] = 0

\* C10: in every frame run_lights sends, whatever lights were created and
\* destroyed and whatever runs were made before, every channel outside
\* [a, a+2] for the address a of every registered light is 0.
C10_UnownedZero == [][C10_Step]_vars

\* a frame sent after a light that an earlier run had lit was destroyed
C10_Witness ==
    /\ attempts > 0
    /\ Running
    /\ active_lights # {}
    /\ \E l \in 1..Len(objs) : l \notin active_lights /\ objs[l].value # Black

\* ---- C11: the registry and addresses ---------------------------------------
\* some two registered lights share a channel
Sharing ==
    \E l \in active_lights, k \in active_lights :
        l # k /\ Overlap(objs[l].address, objs[k].address)

\* C11, as claimed: no two registered lights own overlapping address ranges
\* [a, a+2], whatever lights were created and destroyed.
C11_NoOverlap == ~Sharing

\* a step that creates a light
C11_Created ==
    (Len(objs') = Len(objs) + 1) =>
        /\ active_lights' = active_lights \cup {Len(objs')}
        /\ objs'[Len(objs')].value = Black
        /\ \A k \in 1..Len(objs) : objs'[k] = objs[k]

\* the for loop has visited every registered light in this tick
C11_AllVisited ==
    (pc = "for" /\ iter = {}) =>
        \A l \in active_lights : Len(evalLog[l]) = time + 1

\* C11, amended to what the code does: creating a light never fails and
\* looks at no address: the new light is added to the registry with the
\* colour black, also when its channels overlap those of a registered
\* light, and the lights created before are as they were; so registered
\* lights can share channels, and each of them is still evaluated in every
\* tick.
C11_Unchecked == []C11_AllVisited /\ [][C11_Created]_vars

\* a run that returned with two registered lights at the same address
C11_Witness ==
    /\ Sharing
    /\ result = "returned"
    /\ duration = MaxDuration
    /\ \A l \in active_lights : Len(evalLog[l]) = duration

\* ---- C12: light modes made with intervals that are not positive -----------
NonPositive(f) ==
    CASE f.kind \in {"cross_fade", "random_color"} -> f.interval <= 0
      [] f.kind \in {"fixed_color_strobe", "variable_color_strobe"} ->
           f.oninterval <= 0 \/ f.offinterval <= 0
      [] OTHER -> FALSE

\* the divisor of the light mode's % operation
Modulus(f) ==
    CASE f.kind = "cross_fade" -> 2 * f.interval
      [] f.kind = "random_color" -> f.interval
      [] OTHER -> f.oninterval + f.offinterval

ParamFaults == {"ZeroDivisionError", "IndexError"}

\* C12, as claimed: no light ever holds a light mode made with an interval
\* that is not positive, and no evaluation fails with a division by zero or
\* an index outside the list of weights.
C12_Rejected ==
    /\ \A l \in 1..Len(objs) : ~NonPositive(objs[l].lighting_function)
    /\ result \notin ParamFaults

\* a light made with such a light mode is registered
C12_Attached ==
    (Len(objs') = Len(objs) + 1) =>
        /\ Len(objs') \in active_lights'
        /\ result' = "none"

\* what evaluating such a light mode does
C12_Evaluation ==
    (lastEval.l # 0 /\ NonPositive(lastEval.f)) =>
        LET f == lastEval.f
            expected ==
                IF Modulus(f) = 0 THEN "ZeroDivisionError"
                ELSE IF f.kind = "cross_fade" THEN "IndexError"
                ELSE "none"
        IN  /\ lastEval.exc = expected
            /\ expected # "none" =>
                  /\ result = expected
                  /\ objs[lastEval.l].value = lastEval.prev
            /\ expected = "none" =>
                  /\ result = "returned"
                  /\ objs[lastEval.l].value = lastEval.ret

\* C12, amended to what the code does: the light modes check nothing when
\* they are made: a mode made with an interval that is not positive is made
\* without error and can be given to a light.  Evaluating it raises
\* ZeroDivisionError when the divisor of its % is 0 (interval 0 for
\* cross_fade and random_color, oninterval + offinterval = 0 for the
\* strobes) and IndexError for cross_fade with a negative interval, leaving
\* the light's stored colour as it was; every other such mode evaluates
\* without error.
C12_Unvalidated == []C12_Evaluation /\ [][C12_Attached]_vars

\* random_color(0) evaluated: division by zero
C12_Witness ==
    /\ lastEval.l # 0
    /\ lastEval.f = random_color(0)
    /\ result = "ZeroDivisionError"

\* cross_fade with a negative interval evaluated: no weights to index
C12_WitnessIndex ==
    /\ lastEval.l # 0
    /\ lastEval.f.kind = "cross_fade"
    /\ lastEval.f.interval < 0
    /\ result = "IndexError"

\* a strobe with a negative interval evaluated without error
C12_WitnessNormal ==
    /\ lastEval.l # 0
    /\ lastEval.f.kind = "variable_color_strobe"
    /\ lastEval.f.oninterval < 0
    /\ lastEval.exc = "none"
    /\ lastEval.ret # Black

\* ---- C13: run_lights(0) ------------------------------------------------------
\* the call was ended by an exception
Faulted == result \notin {"none", "returned"}

\* the loop test of a call with duration 0 enters the loop body
C13_Enters == (pc = "while" /\ duration = 0) => pc' = "for"

\* C13: run_lights(0) never returns: its loop test is true every time it is
\* made, and unless an exception ends the call (a fault of a tick: of a
\* lighting function, of the channel list or of the encoder) the tick counter
\* keeps growing and, the loop being executed fairly, for every n a frame for
\* tick n is eventually handed to sendto (in the model: for every n up to
\* MaxTime, where the counter is stopped).
C13_Forever ==
    /\ [](duration = 0 => result # "returned")
    /\ [][C13_Enters]_vars
    /\ \A n \in 1..MaxTime :
         (Running /\ duration = 0) ~> (Faulted \/ (attempts >= n /\ time >= n))

\* MaxTime ticks of a call run_lights(0) made without an exception
C13_Witness ==
    /\ duration = 0
    /\ Running
    /\ time = MaxTime
    /\ attempts = MaxTime
    /\ Cardinality(active_lights) = 2

\* ---- C14: the order of the steps of a tick -----------------------------------
\* C14, as claimed: the frame of a tick is handed to sendto before the
\* tick's sleep begins: when the sleep begins, as many frames have been
\* handed over as ticks have been evaluated.
C14_SendThenSleep == (pc = "sleep") => attempts = time

\* where a tick is when it sleeps and when it sends
C14_Position ==
    /\ (pc \in {"sleep", "send"}) =>
          /\ attempts = time - 1
          /\ iter = {}
          /\ \A l \in active_lights : Len(evalLog[l]) = time
    /\ (pc = "send") => result = "none"

\* the steps after the for loop, in their order
C14_Order ==
    /\ (pc = "for" /\ pc' \notin {"for", "idle"}) =>
          /\ pc' = "sleep"
          /\ iter = {}
          /\ time' = time + 1
          /\ UNCHANGED <<light_data, attempts>>
    /\ (pc = "sleep") =>
          /\ pc' = "send"
          /\ UNCHANGED <<light_data, attempts, time, objs>>
    /\ (pc = "send" /\ attempts' # attempts) =>
          /\ pc' = "while"
          /\ attempts' = time
          /\ levels' = [i \in 1..Len(light_data) |-> RoundInt(light_data[i])]

\* C14, amended to what the code does: within every tick the steps are:
\* evaluate every light and fill the channel list, then print and add 1 to
\* the tick counter, then sleep the fixed period, then round the list and
\* hand the frame to sendlevels; so the frame computed at tick t is sent
\* after that tick's sleep, not before it.
C14_SleepThenSend == []C14_Position /\ [][C14_Order]_vars

\* the second tick has slept and its frame is still to be sent
C14_Witness ==
    /\ pc = "send"
    /\ time = 2
    /\ attempts = 1
    /\ Cardinality(active_lights) = 2

\* ---- C15: ticks do not overlap, frames are complete --------------------------
\* the number of evaluations of light l a call has made when it is at pc
Evaluations(l) == IF pc = "for" /\ l \notin iter THEN time + 1 ELSE time

\* evaluations and frames counted against the tick counter
C15_InStep ==
    (Running /\ result = "none") =>
        /\ (pc \in {"while", "for"}) => attempts = time
        /\ (pc \in {"sleep", "send"}) => attempts = time - 1
        /\ (pc = "for") => iter \subseteq active_lights
        /\ \A l \in active_lights : evalLog[l] = FirstTicks(Evaluations(l))

\* the channels of light l in a packed frame
Carried(frame, l) ==
    LET a == objs[l].address
    IN  <<frame[a + 1], frame[a + 2], frame[a + 3]>>

RoundedColor(c) == <<RoundInt(c.red), RoundInt(c.green), RoundInt(c.blue)>>

\* a step that hands a frame to sendto: it is frame number time - 1, made
\* after every light was evaluated at tick time - 1; each light's channels
\* carry its colour of that tick, or, where lights share channels, the
\* colour of one of the lights that share them
C15_Frame ==
    (pc = "send" /\ attempts' # attempts) =>
        /\ attempts = time - 1
        /\ \A l \in active_lights :
             /\ evalLog[l] = FirstTicks(time)
             /\ \E k \in active_lights :
                  /\ Overlap(objs[k].address, objs[l].address)
                  /\ \A i \in 0..2 :
                       LET ch == objs[l].address + i
                       IN  (objs[k].address <= ch /\ ch <= objs[k].address + 2) =>
                             out'[ch + 1] = RoundedColor(objs[k].value)[ch - objs[k].address + 1]
             /\ (\A k \in active_lights \ {l} :
                    ~Overlap(objs[k].address, objs[l].address)) =>
                  Carried(out', l) = RoundedColor(objs[l].value)

\* C15: ticks never overlap and every frame is complete: in each tick every
\* registered light is evaluated exactly once (its evaluations are at ticks
\* 0, 1, 2, ... in order), the frame of tick t is handed to sendto only
\* after all lights were evaluated at t, and no light is evaluated at tick
\* t+1 before the frame of tick t has been handed over; the k-th frame
\* carries the colours evaluated at tick k.
C15_NoOverlap == []C15_InStep /\ [][C15_Frame]_vars

\* the second frame of a run with two lights on different channels, one of
\* which changed colour since the first frame
C15_Witness ==
    /\ pc = "while"
    /\ attempts = 2
    /\ Cardinality(active_lights) = 2
    /\ ~Sharing
    /\ \E l \in active_lights :
         /\ objs[l].value # ColorA
         /\ objs[l].lighting_function.kind = "cross_fade"
         /\ Carried(out, l) = RoundedColor(objs[l].value)

\* ---- C16: what the evaluation step leaves -------------------------------------
\* light l shares no channel and its channels are in the channel list
Alone(l) ==
    /\ objs[l].address + 2 < Len(light_data)
    /\ \A k \in active_lights \ {l} : ~Overlap(objs[k].address, objs[l].address)

\* the evaluation step of the tick is over
EvaluationDone == result = "none" /\ ((pc = "for" /\ iter = {}) \/ pc \in {"sleep", "send"})

\* C16, as claimed: after the evaluation step of a tick the channels of every
\* registered light (not sharing, in range) hold the rounded red, green and
\* blue of its stored colour.
C16_RoundedBuffer ==
    EvaluationDone =>
        \A l \in active_lights :
            Alone(l) =>
                /\ Carried(light_data, l)[1] = Num(RoundInt(objs[l].value.red))
                /\ Carried(light_data, l)[2] = Num(RoundInt(objs[l].value.green))
                /\ Carried(light_data, l)[3] = Num(RoundInt(objs[l].value.blue))

\* a pass of the for loop: the light's function is applied to the tick and
\* to the colour the light held, and the result is the colour it holds now
C16_Applied ==
    (pc = "for" /\ lastEval' # lastEval) =>
        LET l == lastEval'.l
        IN  /\ l \in active_lights
            /\ lastEval'.t = time
            /\ lastEval'.prev = objs[l].value
            /\ \E g \in generate :
                 objs'[l].value =
                     lighting_function(objs[l].lighting_function, time, objs[l].value, g).ret
            /\ \A k \in (1..Len(objs)) \ {l} : objs'[k] = objs[k]

\* the channel list after the evaluation step, and what is made of it
C16_Buffer ==
    /\ EvaluationDone =>
          \A l \in active_lights :
              Alone(l) =>
                  Carried(light_data, l) =
                      <<objs[l].value.red, objs[l].value.green, objs[l].value.blue>>
    /\ (pc = "while" /\ attempts > 0) =>
          \A l \in active_lights :
              Alone(l) => Carried(levels, l) = RoundedColor(objs[l].value)

\* one light at address 0 with the fixed colour (10, 20, 30), run for 1 tick
C16_Example ==
    (/\ result = "returned"
     /\ duration = 1
     /\ \E l \in 1..Len(objs) :
          /\ active_lights = {l}
          /\ objs[l].address = 0
          /\ objs[l].lighting_function = fixed_color(IntColor(10, 20, 30))) =>
        /\ light_data = [i \in 1..(3 * max_lights) |-> IF i = 1 THEN <<10, 1>>
                                         ELSE IF i = 2 THEN <<20, 1>>
                                         ELSE IF i = 3 THEN <<30, 1>> ELSE <<0, 1>>]
        /\ levels = [i \in 1..(3 * max_lights) |-> IF i = 1 THEN 10 ELSE IF i = 2 THEN 20
                                     ELSE IF i = 3 THEN 30 ELSE 0]
        /\ out = [i \in 1..PayloadLen |-> IF i = 1 THEN 10 ELSE IF i = 2 THEN 20
                                   ELSE IF i = 3 THEN 30 ELSE 0]

\* C16, amended to what the code does: after the evaluation step of every
\* tick t, for every registered light (sharing no channel, address in
\* range): its stored colour is its lighting function applied to (t, the
\* colour it held before the tick), and its three channels of the channel
\* list hold the red, green and blue of that colour as they are, not
\* rounded; the rounded values are what is printed and given to sendlevels.
\* One light at address 0 with the fixed colour (10, 20, 30) run for 1 tick
\* yields the list [10, 20, 30, 0, ..., 0].
C16_Unrounded == [](C16_Buffer /\ C16_Example) /\ [][C16_Applied]_vars

\* after a tick's evaluation a light holds a colour with a component that
\* is no integer, and so does the channel list
C16_Witness ==
    /\ EvaluationDone
    /\ \E l \in active_lights :
         /\ Alone(l)
         /\ objs[l].value.red[2] # 1
         /\ Carried(light_data, l)[1] = objs[l].value.red

\* the example's run
C16_WitnessExample ==
    /\ result = "returned"
    /\ duration = 1
    /\ Len(objs) = 1
    /\ active_lights = {1}
    /\ objs[1].lighting_function = fixed_color(ColorA)
    /\ out[3] = 30

\* ---- C17: an exception raised in the for loop ---------------------------------
TickFaults == {"ZeroDivisionError", "KeyError", "IndexError", "RuntimeError"}

\* a pass of the for loop that raises ends the call with the exception; if
\* the lighting function raised, the light's colour and the channel list
\* are as before
C17_Raises ==
    (pc = "for" /\ lastEval' # lastEval) =>
        LET l == lastEval'.l
            expected ==
                IF lastEval'.exc # "none" THEN lastEval'.exc
                ELSE IF objs[l].address + 2 >= Len(light_data) THEN "IndexError"
                ELSE IF active_lights' # active_lights THEN "RuntimeError"
                ELSE "none"
        IN  /\ expected # "none" =>
                  /\ result' = expected
                  /\ pc' = "idle"
                  /\ UNCHANGED <<attempts, time, out>>
            /\ expected = "none" => (pc' = "for" /\ result' = "none")
            /\ lastEval'.exc # "none" => UNCHANGED <<objs, light_data, active_lights>>

\* a call ended by such an exception at tick t has sent the frames of the
\* ticks before t only and has evaluated no light at a tick after t
C17_Ended ==
    (result \in TickFaults) =>
        /\ pc = "idle"
        /\ attempts = time
        /\ lastEval.l # 0 /\ lastEval.t = time
        /\ \A l \in 1..Len(objs) :
             \A i \in 1..Len(evalLog[l]) : evalLog[l][i] <= time

\* ... and takes no further step: what follows is another call or a change
\* of the lights
C17_Over ==
    (result \in TickFaults) =>
        /\ pc' = "idle" \/ (time' = 0 /\ attempts' = 0)
        /\ lastEval' = NoEval

\* C17: an exception raised while a light is evaluated at tick t, or while
\* its channels are written (an address outside the channel list), is not
\* handled: it ends run_lights, so the frame of tick t and of any later tick
\* is not sent and no light is evaluated at a tick after t.
C17_Propagates == []C17_Ended /\ [][C17_Raises /\ C17_Over]_vars

\* a lighting function raised in the second tick of a run, after the other
\* light was evaluated in that tick and the first frame was sent
C17_Witness ==
    /\ result = "IndexError"
    /\ lastEval.exc = "IndexError"
    /\ time = 1
    /\ attempts = 1
    /\ \E l \in active_lights : Len(evalLog[l]) = 2 /\ l # lastEval.l

\* the channel write raised, after the light's colour was stored
C17_WitnessIndex ==
    /\ result = "IndexError"
    /\ lastEval.exc = "none"
    /\ objs[lastEval.l].value = ColorB

\* random_color(0) raised where run_lights evaluates it
C17_WitnessZero ==
    /\ result = "ZeroDivisionError"
    /\ Cardinality(active_lights) = 2
    /\ \E l \in active_lights : Len(evalLog[l]) = 1 /\ l # lastEval.l

\* ---- C18: the registry changed during a tick ----------------------------------
\* C18, as claimed: when a lighting function changes the registry during a
\* tick, the tick goes on with the lights that were registered when it
\* started and ends normally.
C18_Snapshot ==
    [][(pc = "for" /\ active_lights' # active_lights) =>
          /\ pc' = "for"
          /\ result' = "none"
          /\ iter' = iter \ {lastEval'.l}]_vars

\* ---- C19: random_color driven by run_lights -----------------------------------
IsRandom(l) == objs[l].lighting_function.kind = "random_color"

\* a registered random_color(I) light that this run has evaluated n >= 1
\* times, at ticks 0..n-1: it has drawn ceil(n/I) colours, the last of them
\* at tick I*floor((n-1)/I), and that colour is the one it holds and shows
C19_Shown ==
    \A l \in active_lights :
        (IsRandom(l) /\ (Running \/ result # "none")) =>
            LET I == objs[l].lighting_function.interval
                n == Len(evalLog[l])
            IN  /\ evalLog[l] = FirstTicks(n)
                /\ n = 0 => draws[l].n = 0
                /\ n >= 1 =>
                      /\ draws[l].n = (n + I - 1) \div I
                      /\ draws[l].at = I * ((n - 1) \div I)
                      /\ draws[l].colour \in generate
                      /\ objs[l].value = draws[l].colour
                      /\ (EvaluationDone /\ Alone(l)) =>
                            Carried(light_data, l) =
                                <<draws[l].colour.red, draws[l].colour.green,
                                  draws[l].colour.blue>>

\* a pass of the for loop on a random_color(I) light changes its colour
\* only at a tick that is a multiple of I, by drawing once
C19_Changes ==
    (pc = "for" /\ lastEval' # lastEval /\ IsRandom(lastEval'.l)) =>
        LET l == lastEval'.l
            I == objs[l].lighting_function.interval
        IN  IF time % I = 0
            THEN /\ draws'[l].n = draws[l].n + 1
                 /\ draws'[l].at = time
                 /\ objs'[l].value = draws'[l].colour
            ELSE /\ draws' = draws
                 /\ objs'[l].value = objs[l].value

\* a frame carries the colour drawn, never the colour the light was made with
C19_Emitted ==
    (pc = "send" /\ attempts' # attempts) =>
        \A l \in active_lights :
            (IsRandom(l) /\ Alone(l)) =>
                /\ draws[l].n >= 1
                /\ Carried(out', l) = RoundedColor(draws[l].colour)

\* C19: driven by run_lights from tick 0, a light with random_color(I),
\* I >= 1, shows at every tick t the colour that was drawn at tick
\* I*floor(t/I): its stored colour changes only at ticks that are multiples
\* of I, every frame carries a drawn colour (the black the light is made
\* with is never sent), and after n ticks exactly ceil(n/I) colours have
\* been drawn for it.
C19_RandomHold == []C19_Shown /\ [][C19_Changes /\ C19_Emitted]_vars

\* three ticks of random_color(2): the second colour was drawn at tick 2
C19_Witness ==
    \E l \in active_lights :
        /\ IsRandom(l)
        /\ objs[l].lighting_function.interval = 2
        /\ Len(evalLog[l]) = 3
        /\ draws[l].n = 2
        /\ draws[l].at = 2
        /\ pc = "while"
        /\ attempts = 3

\* tick 1 of random_color(2): the colour of tick 0 is held and sent again
C19_WitnessHeld ==
    \E l \in active_lights :
        /\ IsRandom(l)
        /\ Alone(l)
        /\ Len(evalLog[l]) = 2
        /\ draws[l].n = 1
        /\ objs[l].value # Black
        /\ pc = "while"
        /\ attempts = 2
        /\ Carried(out, l) = RoundedColor(objs[l].value)

\* ---- C20: change_lighting_function ---------------------------------------------
\* a step that gives light l another lighting function
Changes(l) ==
    /\ Len(objs') = Len(objs)
    /\ objs'[l].lighting_function # objs[l].lighting_function

\* such a step changes nothing else
C20_OnlyFunction ==
    \A l \in 1..Len(objs) :
        Changes(l) =>
            /\ objs'[l].address = objs[l].address
            /\ objs'[l].value = objs[l].value
            /\ active_lights' = active_lights
            /\ \A k \in (1..Len(objs)) \ {l} : objs'[k] = objs[k]

\* an evaluation of the light evaluated last, after its lighting function
\* was changed: the new function gets the colour the old one returned
C20_NextEvaluation ==
    (lastEval.l # 0 /\ lastEval'.l = lastEval.l /\ lastEval' # lastEval
     /\ objs[lastEval.l].lighting_function # lastEval.f) =>
        /\ lastEval'.f = objs[lastEval.l].lighting_function
        /\ lastEval'.prev = lastEval.ret
        /\ \E g \in generate :
             objs'[lastEval.l].value =
                 lighting_function(lastEval'.f, lastEval'.t, lastEval.ret, g).ret

\* C20: change_lighting_function changes only the light's lighting
\* function: its address, its stored colour and its place in the registry
\* are as before and so is every other light; the light's next evaluation
\* gives the colour the old function produced, as the previous colour, to
\* the new function.
C20_ChangeFunction == [][C20_OnlyFunction /\ C20_NextEvaluation]_vars

\* a light that showed its fixed colour was given random_color and
\* evaluated at a tick where random_color holds: it still shows the colour
C20_Witness ==
    /\ lastEval.l # 0
    /\ lastEval.f.kind = "random_color"
    /\ lastEval.t % lastEval.f.interval # 0
    /\ lastEval.prev = ColorA
    /\ lastEval.ret = ColorA
    /\ Cardinality(active_lights) = 2

====
